---- MODULE Spec2Model ----
(***************************************************************************)
(* A model of policy_dashboard.py: a Streamlit script that loads a table   *)
(* of bills once (st.cache_data), offers jurisdiction / paradigm /         *)
(* mechanism filters in the sidebar, and on every run recomputes the       *)
(* filtered view, the three top metrics, the mechanism frequencies and the *)
(* heatmap table.  One action is one complete run of the script.           *)
(*                                                                         *)
(* Cell values are strings: "True"/"False" are the booleans of a bool      *)
(* column, "1"/"0" the integers of a 0/1 column, NaN a missing value.      *)
(* A DataFrame is [columns, index, data]; DataFrames live in a heap keyed  *)
(* by the place that allocated them, so that aliasing is visible.          *)
(***************************************************************************)
EXTENDS Integers, Sequences, FiniteSets, TLC

\* ------------------------------------------------------------------ bounds
MaxRows == 2
MaxParadigmRows == 3

NaN == "NaN"
States == {"CA", "TX"}
Paradigms == {"Consent", "Duty of Care"}
Names == {"HB 1"}
BoolCells == {"True", "False"}
IntCells == {"1", "0"}
CandidateMechanisms == {"age_verification", "parental_consent"}

\* ------------------------------------------------------- static configuration
mechanism_cols ==
    << "age_verification", "parental_consent", "data_collection_limits",
       "algorithmic_restrictions", "duty_of_care", "risk_assessment_required",
       "default_privacy_settings", "school_based", "targets_all_platforms" >>

\* Python's order on the strings that occur as state or paradigm values.
LexOrder == << "CA", "Consent", "Duty of Care", "TX" >>

Rank(s) == CHOOSE i \in 1..Len(LexOrder) : LexOrder[i] = s

Range(seq) == { seq[i] : i \in 1..Len(seq) }

RECURSIVE sorted(_)
sorted(S) ==
    IF S = {} THEN << >>
    ELSE LET m == CHOOSE x \in S : \A y \in S : Rank(x) <= Rank(y)
         IN  << m >> \o sorted(S \ {m})

\* ------------------------------------------------------------- DataFrames
EmptyDataFrame == [columns |-> << >>, index |-> << >>, data |-> << >>]

\* DataFrame.empty: some axis has length 0.
IsEmpty(frame) == Len(frame.index) = 0 \/ Len(frame.columns) = 0

HasColumn(frame, c) == c \in Range(frame.columns)

\* df[c]: the cells of a column, in row order.
Column(frame, c) == [i \in 1..Len(frame.data) |-> frame.data[i][c]]

\* Series.dropna().unique(), as a set.
DropnaUnique(cells) == Range(cells) \ {NaN}

\* Series.isin(values): a missing value is in no selection.
Isin(v, values) == v # NaN /\ v \in values

\* cell is True: only the boolean True.
IsTrue(v) == v = "True"

\* cell == True: the boolean True and the number 1 compare equal to True.
EqTrue(v) == v \in {"True", "1"}

RECURSIVE KeepPositions(_, _, _)
KeepPositions(seq, keep, i) ==
    IF i > Len(seq) THEN << >>
    ELSE (IF i \in keep THEN << seq[i] >> ELSE << >>) \o KeepPositions(seq, keep, i + 1)

\* frame[mask]: the rows at the positions of keep, with their index labels.
Take(frame, keep) ==
    [columns |-> frame.columns,
     index   |-> KeepPositions(frame.index, keep, 1),
     data    |-> KeepPositions(frame.data, keep, 1)]

\* ------------------------------------------------- the data file on disk
BaseColumns == << "state", "name", "paradigm" >>

\* The registry identifiers among cols, in registry order.
RegistryOrder(cols) ==
    LET Present(m) == m \in cols IN SelectSeq(mechanism_cols, Present)

RowsOver(S, P, cols, V) ==
    { [c \in Range(BaseColumns) \cup cols |->
          IF c = "state" THEN s
          ELSE IF c = "name" THEN n
          ELSE IF c = "paradigm" THEN p
          ELSE m[c]] : s \in S, n \in Names, p \in P, m \in [cols -> V] }

\* The tables of at most n rows over the given value sets, as read_csv returns them.
TablesOver(S, P, cols, V, n) ==
    { [columns |-> BaseColumns \o RegistryOrder(cols),
       index   |-> [i \in 1..Len(rows) |-> i - 1],
       data    |-> rows] :
      rows \in UNION { [1..k -> RowsOver(S, P, cols, V)] : k \in 0..n } }

\* Three families of tables: jurisdictions and a paradigm, either possibly
\* missing, with one boolean mechanism; longer tables over both paradigms
\* without mechanism columns; and tables over each subset of the candidate
\* mechanism columns, read either as booleans or as 0/1, with missing cells.
SourceTables ==
    TablesOver(States \cup {NaN}, {"Consent", NaN}, {"age_verification"},
               BoolCells, MaxRows)
    \cup TablesOver(States, Paradigms \cup {NaN}, {}, {}, MaxParadigmRows)
    \cup UNION { TablesOver({"CA"}, {"Consent"}, cols, V \cup {NaN}, MaxRows) :
                 cols \in SUBSET CandidateMechanisms, V \in {BoolCells, IntCells} }

Files ==
    { [status |-> st, table |-> EmptyDataFrame] : st \in {"missing", "unreadable"} }
    \cup { [status |-> "ok", table |-> t] : t \in SourceTables }

\* ----------------------------------------------------------------------- heap
Unbound == "unbound"

Store(h, site, frame) ==
    [r \in DOMAIN h \cup {site} |-> IF r = site THEN frame ELSE h[r]]

\* The DataFrame an object reference o = [heap, ref] denotes.
Frame(o) == o.heap[o.ref]

\* A use of the object itself where a copy was meant.
CopyAlias(h, r, site) == [heap |-> h, ref |-> r]

\* DataFrame.copy(): a new object with the same contents.
Copy(h, r, site) == [heap |-> Store(h, site, h[r]), ref |-> site]

\* o[mask]: a new DataFrame holding the rows of o at the positions of keep.
Mask(o, keep) ==
    [heap |-> Store(o.heap, "mask", Take(Frame(o), keep)), ref |-> "mask"]

\* ------------------------------------------------------------ filter engine
RowsWhereIn(frame, col, values) ==
    { i \in 1..Len(frame.data) : Isin(frame.data[i][col], values) }

RowsWhereTrue(frame, col) ==
    { i \in 1..Len(frame.data) : EqTrue(frame.data[i][col]) }

\* An empty selection taken as "nothing is selected".
FilterStatesStrict(o, sel) == Mask(o, RowsWhereIn(Frame(o), "state", sel))

\* A selection that matches no row taken as "no restriction".
FilterStatesLenient(o, sel) ==
    IF sel # {} /\ RowsWhereIn(Frame(o), "state", sel) # {}
    THEN Mask(o, RowsWhereIn(Frame(o), "state", sel))
    ELSE o

FilterStates(o, sel) ==
    IF sel # {} THEN Mask(o, RowsWhereIn(Frame(o), "state", sel)) ELSE o

FilterParadigms(o, sel) ==
    IF sel # {} THEN Mask(o, RowsWhereIn(Frame(o), "paradigm", sel)) ELSE o

FilterMechanism(o, mech, is_checked) ==
    IF is_checked /\ HasColumn(Frame(o), mech)
    THEN Mask(o, RowsWhereTrue(Frame(o), mech))
    ELSE o

\* for mech, is_checked in mech_filters.items(): the dict keeps registry order.
RECURSIVE FilterMechanisms(_, _, _)
FilterMechanisms(o, mf, items) ==
    IF items = << >> THEN o
    ELSE FilterMechanisms(FilterMechanism(o, Head(items), mf[Head(items)]),
                          mf, Tail(items))

\* The keys of mech_filters: the registry identifiers that are columns of df.
MechFilterKeys(frame) == RegistryOrder(Range(frame.columns))

FilteredView(o, ss, sp, mf) ==
    FilterMechanisms(FilterParadigms(FilterStates(o, ss), sp), mf,
                     RegistryOrder(DOMAIN mf))

\* ---------------------------------------------------------------- aggregator
nunique(cells) == Cardinality(DropnaUnique(cells))

Count(cells, v) == Cardinality({ i \in DOMAIN cells : cells[i] = v })

\* The most frequent non-missing values in order of first appearance.
RECURSIVE FirstSeen(_, _, _)
FirstSeen(cells, S, i) ==
    IF i > Len(cells) THEN << >>
    ELSE IF cells[i] \in S
         THEN << cells[i] >> \o FirstSeen(cells, S \ {cells[i]}, i + 1)
         ELSE FirstSeen(cells, S, i + 1)

ModeFirstSeen(cells) ==
    LET vals == DropnaUnique(cells)
    IN  FirstSeen(cells, { v \in vals : \A w \in vals : Count(cells, v) >= Count(cells, w) }, 1)

\* Series.mode(): the most frequent non-missing values, sorted.
mode(cells) ==
    LET vals == DropnaUnique(cells)
    IN  sorted({ v \in vals : \A w \in vals : Count(cells, v) >= Count(cells, w) })

\* One placeholder for "no rows" and "no paradigm".
TopParadigmOnePlaceholder(frame) ==
    IF ~IsEmpty(frame)
    THEN LET top_paradigm == mode(Column(frame, "paradigm"))
         IN  IF top_paradigm # << >> THEN top_paradigm[1] ELSE "N/A"
    ELSE "N/A"

TopParadigm(frame) ==
    IF ~IsEmpty(frame)
    THEN LET top_paradigm == mode(Column(frame, "paradigm"))
         IN  IF top_paradigm # << >> THEN top_paradigm[1] ELSE "None"
    ELSE "N/A"

CellNumber(v) == IF v \in {"True", "1"} THEN 1 ELSE 0

\* Series.sum(): missing values are skipped.
RECURSIVE SumCells(_, _)
SumCells(cells, i) ==
    IF i > Len(cells) THEN 0
    ELSE (IF cells[i] = NaN THEN 0 ELSE CellNumber(cells[i])) + SumCells(cells, i + 1)

ValidMechCols(frame) == RegistryOrder(Range(frame.columns))

\* Only the mechanisms that occur, as value_counts would list them.
MechCountsOccurring(frame) ==
    IF ~IsEmpty(frame)
    THEN LET Occurs(m) == SumCells(Column(frame, m), 1) > 0
             occurring == SelectSeq(ValidMechCols(frame), Occurs)
         IN  [i \in 1..Len(occurring) |->
                 [mechanism |-> occurring[i],
                  count     |-> SumCells(Column(frame, occurring[i]), 1)]]
    ELSE << >>

MechCounts(frame) ==
    IF ~IsEmpty(frame)
    THEN LET valid_mech_cols == ValidMechCols(frame)
         IN  [i \in 1..Len(valid_mech_cols) |->
                 [mechanism |-> valid_mech_cols[i],
                  count     |-> SumCells(Column(frame, valid_mech_cols[i]), 1)]]
    ELSE << >>

MechChart(frame) ==
    IF ~IsEmpty(frame)
    THEN IF ValidMechCols(frame) # << >> THEN "chart" ELSE "warning"
    ELSE "info"

\* -------------------------------------------------------------------- heatmap
\* state + " - " + name on the strings of the model; a missing operand gives NaN.
BillIdentifier(state, name) ==
    IF state = NaN \/ name = NaN THEN NaN
    ELSE CASE state = "CA" /\ name = "HB 1" -> "CA - HB 1"
           [] state = "TX" /\ name = "HB 1" -> "TX - HB 1"

\* frame[col] = ...: the DataFrame itself gains the column.
WithBillIdentifier(frame) ==
    [columns |-> frame.columns \o << "Bill Identifier" >>,
     index   |-> frame.index,
     data    |-> [i \in 1..Len(frame.data) |->
                    [c \in DOMAIN frame.data[i] \cup {"Bill Identifier"} |->
                        IF c = "Bill Identifier"
                        THEN BillIdentifier(frame.data[i]["state"], frame.data[i]["name"])
                        ELSE frame.data[i][c]]]]

\* ---------------------------------------------------------------------- state
VARIABLES
    file,                \* the data file on disk: [status, table]
    cached,              \* st.cache_data holds a result of load_data
    heap,                \* the live DataFrame objects
    df,                  \* module-level names bound to DataFrame objects
    filtered_df,
    heatmap_df,
    all_states,          \* options of the two multiselects
    all_paradigms,
    selected_states,     \* widget values
    selected_paradigms,
    mech_filters,
    bills_found,         \* the three metrics
    states_represented,
    top_paradigm_val,
    mech_counts,         \* the mechanism frequency table and what tab 2 shows for it
    mech_chart,
    page,                \* "start", "dashboard", "nodata" or "crash"
    load_errors          \* number of st.error reports made by load_data

vars == << file, cached, heap, df, filtered_df, heatmap_df, all_states, all_paradigms,
           selected_states, selected_paradigms, mech_filters, bills_found,
           states_represented, top_paradigm_val, mech_counts, mech_chart, page,
           load_errors >>

widgets == << all_states, all_paradigms, selected_states, selected_paradigms, mech_filters >>
outputs == << filtered_df, heatmap_df, bills_found, states_represented, top_paradigm_val,
              mech_counts, mech_chart >>

DefaultStateCount == 3

NoFilters == [m \in {} |-> FALSE]

Init ==
    /\ file \in Files
    /\ cached = FALSE
    /\ heap = [r \in {} |-> EmptyDataFrame]
    /\ df = Unbound
    /\ filtered_df = Unbound
    /\ heatmap_df = Unbound
    /\ all_states = << >>
    /\ all_paradigms = << >>
    /\ selected_states = {}
    /\ selected_paradigms = {}
    /\ mech_filters = NoFilters
    /\ bills_found = 0
    /\ states_represented = 0
    /\ top_paradigm_val = ""
    /\ mech_counts = << >>
    /\ mech_chart = ""
    /\ page = "start"
    /\ load_errors = 0

\* load_data() behind st.cache_data: the body runs until a call returns, and the
\* returned DataFrame is kept.  Only FileNotFoundError is caught.
load_data ==
    IF cached
    THEN [raised |-> FALSE, frame |-> heap["loaded"], errors |-> 0]
    ELSE CASE file.status = "ok" ->
                [raised |-> FALSE, frame |-> file.table, errors |-> 0]
           [] file.status = "missing" ->
                [raised |-> FALSE, frame |-> EmptyDataFrame, errors |-> 1]
           [] file.status = "unreadable" ->
                [raised |-> TRUE, frame |-> EmptyDataFrame, errors |-> 0]

\* The options taken from the filtered view of the previous run.
AllStatesOfView(frame) ==
    IF filtered_df \in DOMAIN heap
    THEN sorted(DropnaUnique(Column(heap[filtered_df], "state")))
    ELSE sorted(DropnaUnique(Column(frame, "state")))

AllStates(frame) == sorted(DropnaUnique(Column(frame, "state")))

AllParadigms(frame) == sorted(DropnaUnique(Column(frame, "paradigm")))

DefaultStates(options) ==
    IF Len(options) > 0
    THEN SubSeq(options, 1, IF Len(options) < DefaultStateCount
                            THEN Len(options) ELSE DefaultStateCount)
    ELSE << >>

\* The filtering logic, the metrics, the frequency table and the heatmap table
\* of one run over the loaded table in h, for the given widget values.
Dashboard(h, ss, sp, mf) ==
    LET f    == FilteredView(Copy(h, "loaded", "copy71"), ss, sp, mf)
        view == Frame(f)
        hm   == IF ~IsEmpty(view)
                THEN LET hc == Copy(f.heap, f.ref, "copy183")
                     IN  [heap |-> [hc.heap EXCEPT ![hc.ref] = WithBillIdentifier(@)],
                          ref  |-> hc.ref]
                ELSE [heap |-> f.heap, ref |-> Unbound]
        live == {"loaded", f.ref, hm.ref} \cap DOMAIN hm.heap
    IN  [heap               |-> [r \in live |-> hm.heap[r]],
         filtered_df        |-> f.ref,
         heatmap_df         |-> hm.ref,
         bills_found        |-> Len(view.index),
         states_represented |-> nunique(Column(view, "state")),
         top_paradigm_val   |-> TopParadigm(view),
         mech_counts        |-> MechCounts(view),
         mech_chart         |-> MechChart(view)]

\* One run of the script.  input says what triggered it: the first run of the
\* session (widgets take their defaults), a plain rerun, or a changed widget.
Script(input) ==
    LET ld == load_data
    IN  IF ld.raised
        THEN /\ page' = "crash"
             /\ UNCHANGED << file, cached, heap, df, widgets, outputs, load_errors >>
        ELSE LET h0 == [r \in {"loaded"} |-> ld.frame]
             IN  /\ cached' = TRUE
                 /\ load_errors' = load_errors + ld.errors
                 /\ df' = "loaded"
                 /\ UNCHANGED file
                 /\ IF IsEmpty(ld.frame)
                    THEN /\ page' = "nodata"
                         /\ heap' = h0
                         /\ UNCHANGED << widgets, outputs >>
                    ELSE LET opts_s == AllStates(ld.frame)
                             opts_p == AllParadigms(ld.frame)
                             keys   == MechFilterKeys(ld.frame)
                             ss == IF input.kind = "first" THEN Range(DefaultStates(opts_s))
                                   ELSE IF input.kind = "states" THEN input.value
                                   ELSE selected_states
                             sp == IF input.kind = "first" THEN Range(opts_p)
                                   ELSE IF input.kind = "paradigms" THEN input.value
                                   ELSE selected_paradigms
                             mf == IF input.kind = "first" THEN [m \in Range(keys) |-> FALSE]
                                   ELSE IF input.kind = "mechanism"
                                        THEN [mech_filters EXCEPT ![input.value] = ~@]
                                   ELSE mech_filters
                             out == Dashboard(h0, ss, sp, mf)
                         IN  /\ page' = "dashboard"
                             /\ all_states' = opts_s
                             /\ all_paradigms' = opts_p
                             /\ selected_states' = ss
                             /\ selected_paradigms' = sp
                             /\ mech_filters' = mf
                             /\ heap' = out.heap
                             /\ filtered_df' = out.filtered_df
                             /\ heatmap_df' = out.heatmap_df
                             /\ bills_found' = out.bills_found
                             /\ states_represented' = out.states_represented
                             /\ top_paradigm_val' = out.top_paradigm_val
                             /\ mech_counts' = out.mech_counts
                             /\ mech_chart' = out.mech_chart

FirstRun ==
    /\ page = "start"
    /\ Script([kind |-> "first"])

Rerun ==
    /\ page # "start"
    /\ Script([kind |-> "rerun"])

SelectStates ==
    /\ page = "dashboard"
    /\ \E S \in SUBSET Range(all_states) :
          /\ S # selected_states
          /\ Script([kind |-> "states", value |-> S])

SelectParadigms ==
    /\ page = "dashboard"
    /\ \E P \in SUBSET Range(all_paradigms) :
          /\ P # selected_paradigms
          /\ Script([kind |-> "paradigms", value |-> P])

ToggleMechanism ==
    /\ page = "dashboard"
    /\ \E m \in DOMAIN mech_filters :
          Script([kind |-> "mechanism", value |-> m])

Next ==
    \/ FirstRun
    \/ Rerun
    \/ SelectStates
    \/ SelectParadigms
    \/ ToggleMechanism

Spec == Init /\ [][Next]_vars

\* ===================================================================== claims
Source == file.table

View == heap[filtered_df]

Checked == { m \in DOMAIN mech_filters : mech_filters[m] }

\* The positions of the rows of frame whose index label is kept in sub.
Kept(frame, sub) == { i \in 1..Len(frame.index) : frame.index[i] \in Range(sub.index) }

\* The rows of the source table that satisfy the current selection, read off
\* the selection row by row.
Selected ==
    { i \in 1..Len(Source.data) :
        /\ selected_states = {} \/ Source.data[i]["state"] \in selected_states
        /\ selected_paradigms = {} \/ Source.data[i]["paradigm"] \in selected_paradigms
        /\ \A m \in Checked : Source.data[i][m] \in {"True", "1"} }

\* sub holds exactly the rows of frame at the positions keep, in table order.
IsSubframe(sub, frame, keep) ==
    /\ sub.columns = frame.columns
    /\ Len(sub.index) = Cardinality(keep)
    /\ Len(sub.data) = Cardinality(keep)
    /\ Kept(frame, sub) = keep
    /\ \A j \in 1..Len(sub.index) :
          \E i \in keep : frame.index[i] = sub.index[j] /\ frame.data[i] = sub.data[j]
    /\ \A j, k \in 1..Len(sub.index) : j < k => sub.index[j] < sub.index[k]

\* C1: with no jurisdiction and no paradigm selected, a row of the loaded table
\* is in the filtered view if and only if every checked mechanism is true on
\* it, where the number 1 counts as true and 0 as false.
C1_MechanismFilterConjunctive ==
    (page = "dashboard" /\ selected_states = {} /\ selected_paradigms = {}) =>
        /\ \A i \in 1..Len(heap[df].data) :
              (heap[df].index[i] \in Range(View.index))
                  <=> (\A m \in Checked : heap[df].data[i][m] \in {"True", "1"})
        /\ \A j \in 1..Len(View.index) :
              \E i \in 1..Len(heap[df].data) :
                  heap[df].index[i] = View.index[j] /\ heap[df].data[i] = View.data[j]

C1_Witness ==
    /\ page = "dashboard" /\ selected_states = {} /\ selected_paradigms = {}
    /\ Cardinality(Checked) = 2
    /\ \E j \in 1..Len(View.data) : \A m \in Checked : View.data[j][m] = "1"
    /\ \E i \in 1..Len(heap[df].data) :
          /\ heap[df].index[i] \notin Range(View.index)
          /\ \E m, n \in Checked : heap[df].data[i][m] = "1" /\ heap[df].data[i][n] = "0"

\* C2: with nothing selected for jurisdiction, paradigm and mechanisms, the
\* filtered view of a non-empty loaded table has exactly the rows of the table,
\* rows with a missing jurisdiction or paradigm included.
C2_EmptySelectionIdentity ==
    (page = "dashboard" /\ selected_states = {} /\ selected_paradigms = {} /\ Checked = {}) =>
        /\ View.columns = heap[df].columns
        /\ View.index = heap[df].index
        /\ View.data = heap[df].data
        /\ bills_found = Len(Source.data)

C2_Witness ==
    /\ page = "dashboard" /\ selected_states = {} /\ selected_paradigms = {} /\ Checked = {}
    /\ Len(View.data) = 2
    /\ \E i, j \in 1..Len(View.data) :
          /\ View.data[i]["state"] = NaN /\ View.data[j]["paradigm"] = NaN
          /\ View.data[j]["state"] # NaN
    /\ all_states # << >>

\* C3: the jurisdiction filter, the paradigm filter and the mechanism filters
\* give the rows of the filtered view in each of their six orders.
C3_FiltersCommute ==
    page = "dashboard" =>
        LET o      == [heap |-> heap, ref |-> df]
            items  == RegistryOrder(DOMAIN mech_filters)
            S(x)   == FilterStates(x, selected_states)
            P(x)   == FilterParadigms(x, selected_paradigms)
            M(x)   == FilterMechanisms(x, mech_filters, items)
            Rows(x) == << Frame(x).index, Frame(x).data >>
            view   == << View.index, View.data >>
        IN  /\ Rows(M(P(S(o)))) = view
            /\ Rows(P(M(S(o)))) = view
            /\ Rows(M(S(P(o)))) = view
            /\ Rows(S(M(P(o)))) = view
            /\ Rows(P(S(M(o)))) = view
            /\ Rows(S(P(M(o)))) = view

C3_Witness ==
    /\ page = "dashboard"
    /\ selected_states # {} /\ selected_paradigms # {} /\ Checked # {}
    /\ Len(View.data) = 1
    /\ \E i \in 1..Len(Source.data) :
          /\ Source.data[i]["state"] \in selected_states
          /\ Source.data[i]["paradigm"] \notin selected_paradigms

\* C4: the loaded table keeps the columns, rows and values it was loaded
\* with; the filtered view and the heatmap table are objects of their own,
\* and only the heatmap table has the 'Bill Identifier' column.
C4_SourceNeverMutated ==
    page = "dashboard" =>
        /\ heap[df] = Source
        /\ filtered_df # df
        /\ ~HasColumn(View, "Bill Identifier")
        /\ heatmap_df # Unbound =>
              /\ heatmap_df \notin {df, filtered_df}
              /\ heap[heatmap_df].columns = Source.columns \o << "Bill Identifier" >>

C4_Witness ==
    /\ page = "dashboard"
    /\ selected_states = {} /\ selected_paradigms = {} /\ Checked = {}
    /\ all_states # << >> /\ all_paradigms # << >>
    /\ heatmap_df # Unbound
    /\ HasColumn(heap[heatmap_df], "Bill Identifier")
    /\ Len(heap[df].data) = 2

\* C5: an empty filtered view of a loaded table gives zero bills, zero
\* jurisdictions and the placeholder "N/A" as dominant paradigm; the state
\* without data shows no such metric, and "N/A" is shown for no other view.
C5_EmptyViewSummary ==
    /\ (page = "dashboard" /\ Len(View.index) = 0) =>
          /\ bills_found = 0
          /\ states_represented = 0
          /\ top_paradigm_val = "N/A"
    /\ page = "nodata" => top_paradigm_val # "N/A"
    /\ top_paradigm_val = "N/A" => (page = "dashboard" /\ Len(View.index) = 0)

C5_Witness ==
    /\ page = "dashboard"
    /\ Len(Source.data) = 2
    /\ Len(View.index) = 0
    /\ top_paradigm_val = "N/A"
    /\ Checked # {}

ActiveMechanisms == RegistryOrder(Range(Source.columns))

TrueRows(frame, m) ==
    Cardinality({ i \in 1..Len(frame.data) : frame.data[i][m] \in {"True", "1"} })

\* One entry per active mechanism, in registry order, each with the number of
\* rows of the view where the mechanism is true.
FrequenciesComplete ==
    /\ Len(mech_counts) = Len(ActiveMechanisms)
    /\ \A i \in 1..Len(ActiveMechanisms) :
          /\ mech_counts[i].mechanism = ActiveMechanisms[i]
          /\ mech_counts[i].count = TrueRows(View, ActiveMechanisms[i])

\* C6 as stated: every filtered view, also an empty one, has one frequency
\* entry per active mechanism.
C6_FrequenciesForEveryView ==
    page = "dashboard" => FrequenciesComplete

\* C6 amended: every non-empty filtered view has one frequency entry per
\* active mechanism, a mechanism with no true row having the count 0; for an
\* empty view no frequencies are computed and an information message is shown.
C6_FrequenciesForNonEmptyView ==
    page = "dashboard" =>
        IF Len(View.index) > 0
        THEN FrequenciesComplete
        ELSE mech_counts = << >> /\ mech_chart = "info"

C6_Witness ==
    /\ page = "dashboard"
    /\ Len(View.index) > 0
    /\ Len(mech_counts) = 2
    /\ mech_counts[1].count = 0
    /\ mech_counts[2].count = 2
    /\ mech_chart = "chart"

\* C7: the filtered view and the summary are determined by the loaded table
\* and the current selection alone.
C7_RecomputationStateless ==
    page = "dashboard" =>
        /\ IsSubframe(View, Source, Selected)
        /\ bills_found = Cardinality(Selected)
        /\ states_represented =
              Cardinality({ Source.data[i]["state"] : i \in Selected } \ {NaN})
        /\ top_paradigm_val = TopParadigm(Take(Source, Selected))
        /\ mech_counts = MechCounts(Take(Source, Selected))

C7_Witness ==
    /\ page = "dashboard"
    /\ all_states # << >> /\ selected_states = {}
    /\ all_paradigms # << >> /\ selected_paradigms = {}
    /\ Checked # {}
    /\ bills_found = 1
    /\ Len(Source.data) = 2

\* seq lists the members of S once each, in increasing order.
IsSortedListOf(seq, S) ==
    /\ Range(seq) = S
    /\ Len(seq) = Cardinality(S)
    /\ \A i, j \in 1..Len(seq) : i < j => Rank(seq[i]) < Rank(seq[j])

\* C8: once the script has run, the jurisdiction and paradigm options are the
\* distinct non-missing values of the unfiltered table, whatever is selected.
C8_OptionsFromSource ==
    page # "start" =>
        /\ IsSortedListOf(all_states,
              { Source.data[i]["state"] : i \in 1..Len(Source.data) } \ {NaN})
        /\ IsSortedListOf(all_paradigms,
              { Source.data[i]["paradigm"] : i \in 1..Len(Source.data) } \ {NaN})

C8_Witness ==
    /\ page = "dashboard"
    /\ Len(View.index) > 0
    /\ \E v \in Range(all_states) : \A j \in 1..Len(View.data) : View.data[j]["state"] # v
    /\ \E v \in Range(all_paradigms) : \A j \in 1..Len(View.data) : View.data[j]["paradigm"] # v

\* C9: a data file that is missing or cannot be read is reported once and the
\* session shows the state without data: no options, no filtering, no error.
C9_LoadFailureHandled ==
    (file.status \in {"missing", "unreadable"} /\ page # "start") =>
        /\ page = "nodata"
        /\ load_errors = 1
        /\ all_states = << >> /\ all_paradigms = << >> /\ mech_filters = NoFilters
        /\ filtered_df = Unbound /\ heatmap_df = Unbound

ViewParadigms == { View.data[j]["paradigm"] : j \in 1..Len(View.data) } \ {NaN}

ParadigmRows(v) == Cardinality({ j \in 1..Len(View.data) : View.data[j]["paradigm"] = v })

\* v has the most rows of the view and is the first such value in sorted order.
IsDominant(v) ==
    /\ v \in ViewParadigms
    /\ \A w \in ViewParadigms : ParadigmRows(v) >= ParadigmRows(w)
    /\ \A w \in ViewParadigms : ParadigmRows(w) = ParadigmRows(v) => Rank(v) <= Rank(w)

\* C10 as stated: in every non-empty view the dominant paradigm is a most
\* frequent paradigm value of the view, the first in sorted order among ties.
C10_DominantIsMostFrequent ==
    (page = "dashboard" /\ Len(View.index) > 0) => IsDominant(top_paradigm_val)

\* C10 amended: that holds of every non-empty view with a paradigm on at least
\* one row; a non-empty view whose paradigms are all missing shows "None".
C10_DominantOrNone ==
    (page = "dashboard" /\ Len(View.index) > 0) =>
        IF ViewParadigms # {}
        THEN IsDominant(top_paradigm_val)
        ELSE top_paradigm_val = "None"

C10_Witness ==
    /\ page = "dashboard"
    /\ Len(View.data) = 3
    /\ View.data[1]["paradigm"] = "Duty of Care"
    /\ View.data[2]["paradigm"] = "Consent"
    /\ View.data[3]["paradigm"] = NaN
    /\ top_paradigm_val = "Consent"

====
